---- MODULE Spec2Model ----
(***************************************************************************)
(* Quaternion camera (camera.h with the camera_math_default.h backend).    *)
(*                                                                         *)
(* Numbers.  A float is modelled by the real number it approximates, kept  *)
(* exactly: <<a, b, e>> stands for (a + b*sqrt(2)) / 2^e, in lowest terms. *)
(* Angles are whole multiples of a quarter turn (pi/2), kept as integers;  *)
(* sinf/cosf of a half angle and atan2f/asinf are evaluated exactly on     *)
(* them.  Every quaternion built from such angles has its components in    *)
(* this ring, so products, conjugations, norms and the view matrix are     *)
(* computed as the code computes them, without rounding.                   *)
(***************************************************************************)
EXTENDS Integers, Sequences, FiniteSets, TLC

(***************************************************************************)
(* Exact arithmetic on (a + b*sqrt(2)) / 2^e                               *)
(***************************************************************************)
RECURSIVE Reduce(_, _, _)
Reduce(a, b, e) ==
    IF e > 0 /\ a % 2 = 0 /\ b % 2 = 0
    THEN Reduce(a \div 2, b \div 2, e - 1)
    ELSE <<a, b, e>>

RECURSIVE Pow2(_)
Pow2(n) == IF n = 0 THEN 1 ELSE 2 * Pow2(n - 1)

Num(n) == <<n, 0, 0>>
Zero == Num(0)
One == Num(1)
Two == Num(2)
Half == <<1, 0, 1>>
Quarter == <<1, 0, 2>>
Sqrt2 == <<0, 1, 0>>
HalfSqrt2 == <<0, 1, 1>>

Add(x, y) ==
    LET e == IF x[3] > y[3] THEN x[3] ELSE y[3]
        fx == Pow2(e - x[3])
        fy == Pow2(e - y[3])
    IN  Reduce(x[1] * fx + y[1] * fy, x[2] * fx + y[2] * fy, e)

Neg(x) == <<-x[1], -x[2], x[3]>>

Sub(x, y) == Add(x, Neg(y))

Mul(x, y) ==
    Reduce(x[1] * y[1] + 2 * x[2] * y[2], x[1] * y[2] + x[2] * y[1], x[3] + y[3])

\* sign of a + b*sqrt(2): -1, 0 or 1
Sign(x) ==
    LET a == x[1]
        b == x[2]
    IN  IF a >= 0 /\ b >= 0 THEN (IF a = 0 /\ b = 0 THEN 0 ELSE 1)
        ELSE IF a <= 0 /\ b <= 0 THEN -1
        ELSE IF a > 0 THEN (IF a * a > 2 * b * b THEN 1 ELSE -1)
        ELSE (IF 2 * b * b > a * a THEN 1 ELSE -1)

Less(x, y) == Sign(Sub(y, x)) > 0

\* the values a square root or a quotient can take in the model
Magnitudes ==
    {Reduce(a, b, e) : a \in 0..4, b \in 0..2, e \in 0..3}

\* sqrtf(x) for x whose root lies in the ring
Sqrt(x) == CHOOSE r \in Magnitudes : Mul(r, r) = x

\* 1.0f / x for x > 0 whose reciprocal lies in the ring
Recip(x) == CHOOSE r \in Magnitudes : Mul(r, x) = One

\* x / y, y # 0
Div(x, y) ==
    IF Sign(y) > 0 THEN Mul(x, Recip(y)) ELSE Neg(Mul(x, Recip(Neg(y))))

\* the element of a one-element set
Only(S) == CHOOSE v \in S : TRUE

(***************************************************************************)
(* math.h on the model's numbers.  Angles are in quarter turns, so the     *)
(* argument h of sinf/cosf below is h * pi/2 radians.                      *)
(***************************************************************************)
\* h as a count of eighth turns (pi/4); h is a multiple of one half
Eighths(h) == IF h[3] = 0 THEN 2 * h[1] ELSE h[1]

Sinf(h) ==
    LET m == Eighths(h) % 8
    IN  CASE m = 0 -> Zero
          [] m = 1 -> HalfSqrt2
          [] m = 2 -> One
          [] m = 3 -> HalfSqrt2
          [] m = 4 -> Zero
          [] m = 5 -> Neg(HalfSqrt2)
          [] m = 6 -> Neg(One)
          [] m = 7 -> Neg(HalfSqrt2)

Cosf(h) ==
    LET m == Eighths(h) % 8
    IN  CASE m = 0 -> One
          [] m = 1 -> HalfSqrt2
          [] m = 2 -> Zero
          [] m = 3 -> Neg(HalfSqrt2)
          [] m = 4 -> Neg(One)
          [] m = 5 -> Neg(HalfSqrt2)
          [] m = 6 -> Zero
          [] m = 7 -> HalfSqrt2

\* atan2f(y, x) in quarter turns, in (-2, 2]; atan2f(0, 0) = 0
Atan2f(y, x) ==
    LET sy == Sign(y)
        sx == Sign(x)
    IN  CASE sy = 0 /\ sx >= 0 -> Zero
          [] sy = 0 /\ sx < 0 -> Two
          [] sy > 0 /\ sx = 0 -> One
          [] sy < 0 /\ sx = 0 -> Neg(One)
          [] sy > 0 /\ sx > 0 /\ y = x -> Half
          [] sy > 0 /\ sx < 0 /\ y = Neg(x) -> <<3, 0, 1>>
          [] sy < 0 /\ sx > 0 /\ y = Neg(x) -> Neg(Half)
          [] sy < 0 /\ sx < 0 /\ y = x -> <<-3, 0, 1>>

\* asinf(v) in quarter turns
Asinf(v) ==
    CASE v = Zero -> Zero
      [] v = One -> One
      [] v = Neg(One) -> Neg(One)
      [] v = HalfSqrt2 -> Half
      [] v = Neg(HalfSqrt2) -> Neg(Half)

(***************************************************************************)
(* camera_math_default.h                                                   *)
(***************************************************************************)
cm_init_vec3(x, y, z) == [x |-> x, y |-> y, z |-> z]

cm_init_quat(x, y, z, w) == [x |-> x, y |-> y, z |-> z, w |-> w]

cm_invert(a) == cm_init_quat(Neg(a.x), Neg(a.y), Neg(a.z), a.w)

cm_mulQuat(a, b) ==
    cm_init_quat(
        Sub(Add(Add(Mul(a.w, b.x), Mul(a.x, b.w)), Mul(a.y, b.z)), Mul(a.z, b.y)),
        Add(Add(Sub(Mul(a.w, b.y), Mul(a.x, b.z)), Mul(a.y, b.w)), Mul(a.z, b.x)),
        Add(Sub(Add(Mul(a.w, b.z), Mul(a.x, b.y)), Mul(a.y, b.x)), Mul(a.z, b.w)),
        Sub(Sub(Sub(Mul(a.w, b.w), Mul(a.x, b.x)), Mul(a.y, b.y)), Mul(a.z, b.z)))

\* the x, y, z of a quaternion, as cm_mul returns them
VectorPart(result) == cm_init_vec3(result.x, result.y, result.z)

cm_mul(v, q) ==
    VectorPart(cm_mulQuat(cm_mulQuat(cm_invert(q), cm_init_quat(v.x, v.y, v.z, Zero)), q))

cm_add(a, b) == cm_init_vec3(Add(a.x, b.x), Add(a.y, b.y), Add(a.z, b.z))

cm_scale(a, b) == cm_init_vec3(Mul(a.x, b), Mul(a.y, b), Mul(a.z, b))

cm_cross(a, b) ==
    cm_init_vec3(
        Sub(Mul(a.y, b.z), Mul(a.z, b.y)),
        Sub(Mul(a.z, b.x), Mul(a.x, b.z)),
        Sub(Mul(a.x, b.y), Mul(a.y, b.x)))

cm_min(a, b) == IF Less(a, b) THEN a ELSE b

cm_max(a, b) == IF Less(b, a) THEN a ELSE b

cm_sqrt(a) == Sqrt(a)

cm_toEuler(a) ==
    LET xsq == Mul(a.x, a.x)
        ysq == Mul(a.y, a.y)
        zsq == Mul(a.z, a.z)
    IN  cm_init_vec3(
            Atan2f(Mul(Two, Sub(Mul(a.x, a.w), Mul(a.y, a.z))),
                   Sub(One, Mul(Two, Add(xsq, zsq)))),
            Atan2f(Mul(Two, Add(Mul(a.y, a.w), Mul(a.x, a.z))),
                   Sub(One, Mul(Two, Add(ysq, zsq)))),
            Asinf(Mul(Two, Add(Mul(a.x, a.y), Mul(a.z, a.w)))))

\* cm_fromAxisAngle once sa = sinf(ha) and cosf(ha) are known
AxisAngleQuat(axis, sa, ca) ==
    cm_init_quat(Mul(axis.x, sa), Mul(axis.y, sa), Mul(axis.z, sa), ca)

cm_fromAxisAngle(axis, angle) ==
    AxisAngleQuat(axis, Sinf(Mul(angle, Half)), Cosf(Mul(angle, Half)))

QuatNorm(a) ==
    Add(Add(Add(Mul(a.x, a.x), Mul(a.y, a.y)), Mul(a.z, a.z)), Mul(a.w, a.w))

\* cm_normalizeQuat without the identity fallback for a norm of 0
NormalizeWith_NoFallback(a, norm) ==
    IF Less(Zero, norm)
    THEN LET invNorm == Recip(Sqrt(norm))
         IN  cm_init_quat(Mul(a.x, invNorm), Mul(a.y, invNorm),
                          Mul(a.z, invNorm), Mul(a.w, invNorm))
    ELSE a

\* the branch of cm_normalizeQuat taken for the squared norm given
NormalizeWith(a, norm) ==
    IF Less(Zero, norm)
    THEN LET invNorm == Recip(Sqrt(norm))
         IN  cm_init_quat(Mul(a.x, invNorm), Mul(a.y, invNorm),
                          Mul(a.z, invNorm), Mul(a.w, invNorm))
    ELSE cm_init_quat(Zero, Zero, Zero, One)

cm_normalizeQuat(a) == NormalizeWith(a, QuatNorm(a))

cm_normalizeVec3(a) ==
    LET invLen == Recip(Sqrt(Add(Add(Mul(a.x, a.x), Mul(a.y, a.y)), Mul(a.z, a.z))))
    IN  cm_scale(a, invLen)

cm_negate(a) == cm_init_vec3(Neg(a.x), Neg(a.y), Neg(a.z))

\* cm_matrixFromQuat with _result[15] left at 0
cm_matrixFromQuat_NoW(q) ==
    LET x2 == Add(q.x, q.x)
        y2 == Add(q.y, q.y)
        z2 == Add(q.z, q.z)
    IN  << Sub(One, Add(Mul(y2, q.y), Mul(z2, q.z))),
           Sub(Mul(x2, q.y), Mul(z2, q.w)),
           Add(Mul(x2, q.z), Mul(y2, q.w)), Zero,
           Add(Mul(x2, q.y), Mul(z2, q.w)),
           Sub(One, Add(Mul(x2, q.x), Mul(z2, q.z))),
           Sub(Mul(y2, q.z), Mul(x2, q.w)), Zero,
           Sub(Mul(x2, q.z), Mul(y2, q.w)),
           Add(Mul(y2, q.z), Mul(x2, q.w)),
           Sub(One, Add(Mul(x2, q.x), Mul(y2, q.y))), Zero,
           Zero, Zero, Zero, Zero >>

\* the float[16] written by cm_matrixFromQuat, _result[i] at index i + 1
cm_matrixFromQuat(q) ==
    LET x2 == Add(q.x, q.x)
        y2 == Add(q.y, q.y)
        z2 == Add(q.z, q.z)
        x2x == Mul(x2, q.x)
        x2y == Mul(x2, q.y)
        x2z == Mul(x2, q.z)
        x2w == Mul(x2, q.w)
        y2y == Mul(y2, q.y)
        y2z == Mul(y2, q.z)
        y2w == Mul(y2, q.w)
        z2z == Mul(z2, q.z)
        z2w == Mul(z2, q.w)
    IN  << Sub(One, Add(y2y, z2z)), Sub(x2y, z2w), Add(x2z, y2w), Zero,
           Add(x2y, z2w), Sub(One, Add(x2x, z2z)), Sub(y2z, x2w), Zero,
           Sub(x2z, y2w), Add(y2z, x2w), Sub(One, Add(x2x, y2y)), Zero,
           Zero, Zero, Zero, One >>

(***************************************************************************)
(* camera.h: world axes, mode flags, the camera struct                     *)
(***************************************************************************)
CAMERA_WORLD_FORWARD == cm_init_vec3(Zero, Zero, One)
CAMERA_WORLD_UP == cm_init_vec3(Zero, One, Zero)
CAMERA_WORLD_RIGHT == cm_init_vec3(One, Zero, Zero)

CAMERA_MODE_DISABLE_ROLL == 1
CAMERA_MODE_MOVE_IN_WORLDPLANE == 2
CAMERA_MODE_CLAMP_PITCH_ANGLE == 4
CAMERA_MODE_CLAMP_YAW_ANGLE == 8
CAMERA_MODE_CLAMP_ROLL_ANGLE == 16

CAMERA_MODE_FREE == 0
CAMERA_MODE_FIRST_PERSON ==
    CAMERA_MODE_DISABLE_ROLL + CAMERA_MODE_MOVE_IN_WORLDPLANE
        + CAMERA_MODE_CLAMP_PITCH_ANGLE
CAMERA_MODE_THIRD_PERSON == CAMERA_MODE_FIRST_PERSON
CAMERA_MODE_ORBITAL == CAMERA_MODE_DISABLE_ROLL + CAMERA_MODE_CLAMP_PITCH_ANGLE

\* mode & flag, for a single-bit flag
HasFlag(mode, flag) == (mode \div flag) % 2 = 1

ZeroVec3 == cm_init_vec3(Zero, Zero, Zero)

camera_init ==
    [ target_position |-> cm_init_vec3(Zero, Zero, Zero),
      target_distance |-> Zero,
      orientation |-> cm_init_quat(Zero, Zero, Zero, Zero),
      mode |-> CAMERA_MODE_FREE,
      movement_accumulator |-> cm_init_vec3(Zero, Zero, Zero),
      rotation_accumulator |-> cm_init_vec3(Zero, Zero, Zero),
      minPitch |-> Zero,
      maxPitch |-> Zero,
      minYaw |-> Zero,
      maxYaw |-> Zero,
      minRoll |-> Zero,
      maxRoll |-> Zero ]

camera_forward(c) == cm_mul(CAMERA_WORLD_FORWARD, cm_invert(c.orientation))

camera_up(c) == cm_mul(CAMERA_WORLD_UP, cm_invert(c.orientation))

camera_right(c) == cm_mul(CAMERA_WORLD_RIGHT, cm_invert(c.orientation))

camera_eye(c) ==
    cm_add(c.target_position, cm_scale(camera_forward(c), Neg(c.target_distance)))

\* camera_move applying the offset to target_position at once
camera_move_Immediate(c, offset) ==
    [c EXCEPT !.target_position = cm_add(c.target_position, offset)]

camera_move(c, offset) ==
    [c EXCEPT !.movement_accumulator = cm_add(c.movement_accumulator, offset)]

\* camera_rotate keeping only the angles of the latest call
camera_rotate_Overwrite(c, angles) ==
    [c EXCEPT !.rotation_accumulator = angles]

camera_rotate(c, angles) ==
    [c EXCEPT !.rotation_accumulator = cm_add(c.rotation_accumulator, angles)]

\* the conversion with the sign of w wrong in its last branch
MatrixToQuat_LastBranchSign(m0, m1, m2, m4, m5, m6, m8, m9, m10, trace) ==
    IF Less(Zero, trace)
    THEN LET s == Div(Half, cm_sqrt(Add(trace, One)))
         IN  cm_init_quat(Mul(Sub(m6, m9), s), Mul(Sub(m8, m2), s),
                          Mul(Sub(m1, m4), s), Div(Quarter, s))
    ELSE IF Less(m5, m0) /\ Less(m10, m0)
    THEN LET s == Mul(Two, cm_sqrt(Sub(Sub(Add(One, m0), m5), m10)))
         IN  cm_init_quat(Mul(Quarter, s), Div(Add(m4, m1), s),
                          Div(Add(m8, m2), s), Div(Sub(m6, m9), s))
    ELSE IF Less(m10, m5)
    THEN LET s == Mul(Two, cm_sqrt(Sub(Sub(Add(One, m5), m0), m10)))
         IN  cm_init_quat(Div(Add(m4, m1), s), Mul(Quarter, s),
                          Div(Add(m9, m6), s), Div(Sub(m8, m2), s))
    ELSE LET s == Mul(Two, cm_sqrt(Sub(Sub(Add(One, m10), m0), m5)))
         IN  cm_init_quat(Div(Add(m8, m2), s), Div(Add(m9, m6), s),
                          Mul(Quarter, s), Div(Sub(m4, m1), s))

\* camera_look_at, "Convert to Quaternion": the quaternion of the matrix
\* whose rows are right (m0 m1 m2), up (m4 m5 m6) and forward (m8 m9 m10)
MatrixToQuat(m0, m1, m2, m4, m5, m6, m8, m9, m10, trace) ==
    IF Less(Zero, trace)
    THEN LET s == Div(Half, cm_sqrt(Add(trace, One)))
         IN  cm_init_quat(Mul(Sub(m6, m9), s), Mul(Sub(m8, m2), s),
                          Mul(Sub(m1, m4), s), Div(Quarter, s))
    ELSE IF Less(m5, m0) /\ Less(m10, m0)
    THEN LET s == Mul(Two, cm_sqrt(Sub(Sub(Add(One, m0), m5), m10)))
         IN  cm_init_quat(Mul(Quarter, s), Div(Add(m4, m1), s),
                          Div(Add(m8, m2), s), Div(Sub(m6, m9), s))
    ELSE IF Less(m10, m5)
    THEN LET s == Mul(Two, cm_sqrt(Sub(Sub(Add(One, m5), m0), m10)))
         IN  cm_init_quat(Div(Add(m4, m1), s), Mul(Quarter, s),
                          Div(Add(m9, m6), s), Div(Sub(m8, m2), s))
    ELSE LET s == Mul(Two, cm_sqrt(Sub(Sub(Add(One, m10), m0), m5)))
         IN  cm_init_quat(Div(Add(m8, m2), s), Div(Add(m9, m6), s),
                          Mul(Quarter, s), Div(Sub(m1, m4), s))

\* the quaternion of an orthogonal basis
BasisToQuat(right, up, forward) ==
    MatrixToQuat(right.x, right.y, right.z, up.x, up.y, up.z,
                 forward.x, forward.y, forward.z,
                 Add(Add(right.x, up.y), forward.z))

\* camera_look_at, "Get orthogonal basis vectors", with right computed
LookAtBasis(forward, right) == BasisToQuat(right, cm_cross(forward, right), forward)

\* the orientation camera_look_at stores
LookAtQuat(forward, up) ==
    LookAtBasis(forward, cm_normalizeVec3(cm_cross(up, forward)))

\* camera_look_at dropping the rotation queued before the call
camera_look_at_DropPending(c, forward, up) ==
    [c EXCEPT !.orientation = LookAtQuat(forward, up),
              !.rotation_accumulator = ZeroVec3]

camera_look_at(c, forward, up) ==
    [c EXCEPT !.orientation = LookAtQuat(forward, up)]

(***************************************************************************)
(* camera_view_matrix, section by section                                  *)
(***************************************************************************)
\* the clamp section comparing against the bounds themselves, the current
\* angles not subtracted
ClampWith_Absolute(c, angles, r) ==
    cm_init_vec3(
        IF HasFlag(c.mode, CAMERA_MODE_CLAMP_PITCH_ANGLE)
        THEN cm_min(c.maxPitch, cm_max(c.minPitch, r.x))
        ELSE r.x,
        IF HasFlag(c.mode, CAMERA_MODE_CLAMP_YAW_ANGLE)
        THEN cm_min(c.maxYaw, cm_max(c.minYaw, r.y))
        ELSE r.y,
        IF HasFlag(c.mode, CAMERA_MODE_CLAMP_ROLL_ANGLE)
        THEN cm_min(c.maxRoll, cm_max(c.minRoll, r.z))
        ELSE r.z)

\* the clamp section applying cm_min before cm_max
ClampWith_MinFirst(c, angles, r) ==
    cm_init_vec3(
        IF HasFlag(c.mode, CAMERA_MODE_CLAMP_PITCH_ANGLE)
        THEN cm_max(Sub(c.minPitch, angles.x), cm_min(Sub(c.maxPitch, angles.x), r.x))
        ELSE r.x,
        IF HasFlag(c.mode, CAMERA_MODE_CLAMP_YAW_ANGLE)
        THEN cm_max(Sub(c.minYaw, angles.y), cm_min(Sub(c.maxYaw, angles.y), r.y))
        ELSE r.y,
        IF HasFlag(c.mode, CAMERA_MODE_CLAMP_ROLL_ANGLE)
        THEN cm_max(Sub(c.minRoll, angles.z), cm_min(Sub(c.maxRoll, angles.z), r.z))
        ELSE r.z)

\* "Clamp angles" with angles = cm_toEuler(orientation): the rotation
\* accumulator after the clamp section
ClampWith(c, angles, r) ==
    cm_init_vec3(
        IF HasFlag(c.mode, CAMERA_MODE_CLAMP_PITCH_ANGLE)
        THEN cm_min(Sub(c.maxPitch, angles.x), cm_max(Sub(c.minPitch, angles.x), r.x))
        ELSE r.x,
        IF HasFlag(c.mode, CAMERA_MODE_CLAMP_YAW_ANGLE)
        THEN cm_min(Sub(c.maxYaw, angles.y), cm_max(Sub(c.minYaw, angles.y), r.y))
        ELSE r.y,
        IF HasFlag(c.mode, CAMERA_MODE_CLAMP_ROLL_ANGLE)
        THEN cm_min(Sub(c.maxRoll, angles.z), cm_max(Sub(c.minRoll, angles.z), r.z))
        ELSE r.z)

\* "Clamp angles": the rotation accumulator the orientation update uses
ClampAngles(c) ==
    IF HasFlag(c.mode, CAMERA_MODE_CLAMP_PITCH_ANGLE)
       \/ HasFlag(c.mode, CAMERA_MODE_CLAMP_YAW_ANGLE)
       \/ HasFlag(c.mode, CAMERA_MODE_CLAMP_ROLL_ANGLE)
    THEN ClampWith(c, cm_toEuler(c.orientation), c.rotation_accumulator)
    ELSE c.rotation_accumulator

\* "Update orientation" with yaw post-multiplied in the DISABLE_ROLL branch
ComposeOrientation_YawLast(orientation, mode, rot) ==
    IF HasFlag(mode, CAMERA_MODE_DISABLE_ROLL)
    THEN cm_mulQuat(cm_mulQuat(orientation, cm_fromAxisAngle(CAMERA_WORLD_RIGHT, rot.x)),
                    cm_fromAxisAngle(CAMERA_WORLD_UP, rot.y))
    ELSE cm_mulQuat(
             cm_mulQuat(cm_mulQuat(orientation,
                                   cm_fromAxisAngle(CAMERA_WORLD_RIGHT, rot.x)),
                        cm_fromAxisAngle(CAMERA_WORLD_UP, rot.y)),
             cm_fromAxisAngle(CAMERA_WORLD_FORWARD, rot.z))

\* "Update orientation": orientation composed with the deltas rot, before
\* the re-normalization
ComposeOrientation(orientation, mode, rot) ==
    IF HasFlag(mode, CAMERA_MODE_DISABLE_ROLL)
    THEN cm_mulQuat(cm_fromAxisAngle(CAMERA_WORLD_UP, rot.y),
                    cm_mulQuat(orientation, cm_fromAxisAngle(CAMERA_WORLD_RIGHT, rot.x)))
    ELSE cm_mulQuat(
             cm_mulQuat(cm_mulQuat(orientation,
                                   cm_fromAxisAngle(CAMERA_WORLD_RIGHT, rot.x)),
                        cm_fromAxisAngle(CAMERA_WORLD_UP, rot.y)),
             cm_fromAxisAngle(CAMERA_WORLD_FORWARD, rot.z))

\* 0.0001f, as the dyadic 2^-13
epsilon == <<1, 0, 13>>

\* MOVE_IN_WORLDPLANE without the special cases and the projection
WorldPlaneBasis_Unprojected(forward, up, right) ==
    [forward |-> forward, up |-> CAMERA_WORLD_UP, right |-> right]

\* MOVE_IN_WORLDPLANE: forward, up, right after the special cases, projected
\* into the world plane
WorldPlaneBasis(forward, up, right) ==
    [ forward |->
          cm_normalizeVec3(
              [(IF Less(Sub(One, epsilon), forward.y) THEN cm_negate(up)
                ELSE IF Less(forward.y, Add(Neg(One), epsilon)) THEN up
                ELSE forward) EXCEPT !.y = Zero]),
      up |-> CAMERA_WORLD_UP,
      right |->
          cm_normalizeVec3(
              [(IF Less(Sub(One, epsilon), forward.y)
                   \/ Less(forward.y, Add(Neg(One), epsilon))
                THEN right
                ELSE IF Less(Sub(One, epsilon), right.y) THEN up
                ELSE IF Less(right.y, Add(Neg(One), epsilon)) THEN cm_negate(up)
                ELSE right) EXCEPT !.y = Zero]) ]

\* "Update target_position": the forward, up, right the movement is scaled
\* along, for a camera whose orientation is already updated
MoveBasis(c) ==
    IF HasFlag(c.mode, CAMERA_MODE_MOVE_IN_WORLDPLANE)
    THEN WorldPlaneBasis(camera_forward(c), camera_up(c), camera_right(c))
    ELSE [forward |-> camera_forward(c), up |-> camera_up(c), right |-> camera_right(c)]

\* the camera with orientation q and the rotation accumulator reset
WithOrientation(c, q) ==
    [c EXCEPT !.orientation = q,
              !.rotation_accumulator = cm_init_vec3(Zero, Zero, Zero)]

\* "Clamp angles" and "Update orientation": the camera after the rotation
\* accumulator is applied and reset.  Each statement's result is computed
\* before the next statement uses it.
ResolveRotation(c) ==
    Only({ WithOrientation(c, cm_normalizeQuat(composed)) :
             composed \in { ComposeOrientation(c.orientation, c.mode, rot) :
                              rot \in {ClampAngles(c)} } })

\* ApplyMovement without the reset of the movement accumulator
ApplyMovement_NoReset(c, basis) ==
    [c EXCEPT
       !.target_position =
           cm_add(cm_add(cm_add(c.target_position,
                                cm_scale(basis.forward, c.movement_accumulator.x)),
                         cm_scale(basis.up, c.movement_accumulator.y)),
                  cm_scale(basis.right, c.movement_accumulator.z))]

\* "Scale by desired distance", "Apply changes to target_position" and the
\* reset of the movement accumulator
ApplyMovement(c, basis) ==
    [c EXCEPT
       !.target_position =
           cm_add(cm_add(cm_add(c.target_position,
                                cm_scale(basis.forward, c.movement_accumulator.x)),
                         cm_scale(basis.up, c.movement_accumulator.y)),
                  cm_scale(basis.right, c.movement_accumulator.z)),
       !.movement_accumulator = cm_init_vec3(Zero, Zero, Zero)]

\* "Update target_position": the camera after the movement accumulator is
\* applied and reset
ResolveMovement(c) == ApplyMovement(c, MoveBasis(c))

\* "Add translation": the rotation matrix with the translation written
WithTranslation(matrix, translation) ==
    [matrix EXCEPT ![13] = translation.x, ![14] = translation.y, ![15] = translation.z]

\* "Generate view matrix": the float[16] written for camera c
GenerateViewMatrix(c) ==
    WithTranslation(cm_matrixFromQuat(c.orientation),
                    cm_mul(cm_negate(camera_eye(c)), c.orientation))

\* the updated camera with the matrix generated from it
WithMatrix(updated) == [cam |-> updated, matrix |-> GenerateViewMatrix(updated)]

\* camera_view_matrix applying the movement before the rotation
camera_view_matrix_MoveFirst(c) ==
    Only({ WithMatrix(updated) :
             updated \in { ResolveRotation(moved) :
                             moved \in {ResolveMovement(c)} } })

\* the camera after camera_view_matrix and the float[16] it writes
camera_view_matrix(c) ==
    Only({ WithMatrix(updated) :
             updated \in { ResolveMovement(rotated) :
                             rotated \in {ResolveRotation(c)} } })

(***************************************************************************)
(* The caller: one camera, calls serialized.  A frame is the calls made    *)
(* between two camera_view_matrix calls.                                   *)
(***************************************************************************)
\* camera_move, camera_rotate and camera_look_at calls in a run
MaxCalls == 3
\* camera_view_matrix calls in a run
MaxFrames == 2

Vec(a, b, c) == cm_init_vec3(Num(a), Num(b), Num(c))

\* offsets passed to camera_move: (forward, up, right)
MoveInputs == {Vec(1, 0, 0), Vec(0, 1, -1)}

\* angles passed to camera_rotate: (pitch, yaw, roll) in quarter turns
RotateInputs == {Vec(0, 0, 0), Vec(1, 0, 0), Vec(0, 1, 0), Vec(0, -1, 2)}

\* (forward, up) passed to camera_look_at: unit and orthogonal, one pair for
\* each branch of the conversion
LookAtInputs ==
    { <<Vec(0, 0, 1), Vec(0, 1, 0)>>, <<Vec(0, 0, -1), Vec(0, -1, 0)>>,
      <<Vec(0, 0, -1), Vec(0, 1, 0)>>, <<Vec(1, 0, 0), Vec(0, 0, 1)>> }

\* orientations the caller writes into the struct by hand: not unit length
OrientationInputs == {cm_init_quat(One, Zero, Zero, One)}

\* a unit orientation the caller writes by hand: pitched up a quarter turn
PitchedInputs == {cm_init_quat(HalfSqrt2, Zero, Zero, HalfSqrt2)}

\* values the caller stores in cam.mode
Modes ==
    { CAMERA_MODE_FIRST_PERSON, CAMERA_MODE_ORBITAL, CAMERA_MODE_DISABLE_ROLL,
      CAMERA_MODE_MOVE_IN_WORLDPLANE,
      CAMERA_MODE_CLAMP_YAW_ANGLE + CAMERA_MODE_CLAMP_ROLL_ANGLE }

\* values of cam.mode with angle clamping
ClampModes ==
    { CAMERA_MODE_CLAMP_PITCH_ANGLE, CAMERA_MODE_ORBITAL,
      CAMERA_MODE_CLAMP_PITCH_ANGLE + CAMERA_MODE_CLAMP_YAW_ANGLE
          + CAMERA_MODE_CLAMP_ROLL_ANGLE }

\* <<min, max>> the caller stores in the clamp limits, in quarter turns
Limits == { <<Num(-1), Num(1)>>, <<Zero, One>>, <<One, One>> }

VARIABLES
    cam,         \* the Camera struct
    out_matrix,  \* the caller's float[16]
    last,        \* the last call made: its name and arguments
    pre,         \* cam as it was before the last call
    queued,      \* the camera_move / camera_rotate calls of the current frame, in call order
    calls,       \* camera_move, camera_rotate and camera_look_at calls so far
    frames       \* camera_view_matrix calls so far

vars == <<cam, out_matrix, last, pre, queued, calls, frames>>

Init ==
    /\ cam = camera_init
    /\ out_matrix = [i \in 1..16 |-> Zero]
    /\ last = [op |-> "camera_init", arg |-> <<>>]
    /\ pre = camera_init
    /\ queued = <<>>
    /\ calls = 0
    /\ frames = 0

\* the caller writes the public struct members mode and min*/max* (camera.h
\* "ANGLE CLAMPING", steps 1 and 2) before the first call
Configure(mode, pitch, yaw, roll) ==
    /\ last.op \in {"camera_init", "set_orientation"}
    /\ cam' = [cam EXCEPT !.mode = mode,
                          !.minPitch = pitch[1], !.maxPitch = pitch[2],
                          !.minYaw = yaw[1], !.maxYaw = yaw[2],
                          !.minRoll = roll[1], !.maxRoll = roll[2]]
    /\ last' = [op |-> "configure", arg |-> <<mode, pitch, yaw, roll>>]
    /\ pre' = cam
    /\ UNCHANGED <<out_matrix, queued, calls, frames>>

\* the caller writes the public struct member orientation before the first
\* call (camera.h "GENERAL NOTES": all members can be manipulated)
SetOrientation(q) ==
    /\ last.op = "camera_init"
    /\ cam' = [cam EXCEPT !.orientation = q]
    /\ last' = [op |-> "set_orientation", arg |-> q]
    /\ pre' = cam
    /\ UNCHANGED <<out_matrix, queued, calls, frames>>

\* the caller writes the public struct member target_distance before the
\* first call (camera.h: "Use a target_distance > 0" for third person)
SetDistance(d) ==
    /\ last.op = "camera_init"
    /\ cam' = [cam EXCEPT !.target_distance = d]
    /\ last' = [op |-> "set_distance", arg |-> d]
    /\ pre' = cam
    /\ UNCHANGED <<out_matrix, queued, calls, frames>>

Move(offset) ==
    /\ calls < MaxCalls
    /\ cam' = camera_move(cam, offset)
    /\ last' = [op |-> "camera_move", arg |-> offset]
    /\ pre' = cam
    /\ queued' = Append(queued, [op |-> "camera_move", arg |-> offset])
    /\ calls' = calls + 1
    /\ UNCHANGED <<out_matrix, frames>>

Rotate(angles) ==
    /\ calls < MaxCalls
    /\ cam' = camera_rotate(cam, angles)
    /\ last' = [op |-> "camera_rotate", arg |-> angles]
    /\ pre' = cam
    /\ queued' = Append(queued, [op |-> "camera_rotate", arg |-> angles])
    /\ calls' = calls + 1
    /\ UNCHANGED <<out_matrix, frames>>

LookAt(forward, up) ==
    /\ calls < MaxCalls
    /\ cam' = camera_look_at(cam, forward, up)
    /\ last' = [op |-> "camera_look_at", arg |-> <<forward, up>>]
    /\ pre' = cam
    /\ calls' = calls + 1
    /\ UNCHANGED <<out_matrix, queued, frames>>

ViewMatrix ==
    /\ frames < MaxFrames
    /\ LET r == camera_view_matrix(cam)
       IN  /\ cam' = r.cam
           /\ out_matrix' = r.matrix
    /\ last' = [op |-> "camera_view_matrix", arg |-> <<>>]
    /\ pre' = cam
    /\ queued' = <<>>
    /\ frames' = frames + 1
    /\ UNCHANGED calls

\* a camera left in CAMERA_MODE_FREE, its orientation possibly hand-written
Next ==
    \/ \E q \in OrientationInputs : SetOrientation(q)
    \/ \E offset \in MoveInputs : Move(offset)
    \/ \E angles \in RotateInputs : Rotate(angles)
    \/ ViewMatrix

Spec == Init /\ [][Next]_vars

\* camera_look_at between the other calls
NextLookAt ==
    \/ Move(Vec(1, 0, 0))
    \/ Rotate(Vec(1, 0, 0))
    \/ \E fu \in LookAtInputs : LookAt(fu[1], fu[2])
    \/ ViewMatrix

SpecLookAt == Init /\ [][NextLookAt]_vars

\* the six directions along the world axes
AxisDirections ==
    { Vec(1, 0, 0), Vec(-1, 0, 0), Vec(0, 1, 0), Vec(0, -1, 0),
      Vec(0, 0, 1), Vec(0, 0, -1) }

Dot(a, b) == Add(Add(Mul(a.x, b.x), Mul(a.y, b.y)), Mul(a.z, b.z))

\* every (forward, up) along the world axes with up orthogonal to forward
OrthonormalInputs ==
    { fu \in AxisDirections \X AxisDirections : Dot(fu[1], fu[2]) = Zero }

\* camera_look_at in every axis-aligned direction, one call after another
NextLookAtAll == \E fu \in OrthonormalInputs : LookAt(fu[1], fu[2])

SpecLookAtAll == Init /\ [][NextLookAtAll]_vars

\* a camera configured to one of the modes, limits a quarter turn each way
NextModes ==
    \/ \E m \in Modes : Configure(m, <<Num(-1), Num(1)>>, <<Num(-1), Num(1)>>,
                                  <<Num(-1), Num(1)>>)
    \/ Move(Vec(1, 1, 0))
    \/ \E angles \in {Vec(1, 0, 0), Vec(0, 1, 0), Vec(0, 0, 1)} : Rotate(angles)
    \/ ViewMatrix

SpecModes == Init /\ [][NextModes]_vars

\* frames of camera_move and camera_rotate calls in every order
NextAccumulate ==
    \/ \E offset \in MoveInputs : Move(offset)
    \/ \E angles \in {Vec(1, 0, 0), Vec(0, -1, 2)} : Rotate(angles)
    \/ ViewMatrix

SpecAccumulate == Init /\ [][NextAccumulate]_vars

\* values of cam.mode with CAMERA_MODE_MOVE_IN_WORLDPLANE set
WorldPlaneModes == {CAMERA_MODE_MOVE_IN_WORLDPLANE, CAMERA_MODE_FIRST_PERSON}

\* a camera moving in the world plane, pitched up or down or rolled
NextWorldPlane ==
    \/ \E m \in WorldPlaneModes :
          Configure(m, <<Num(-1), Num(1)>>, <<Num(-1), Num(1)>>, <<Num(-1), Num(1)>>)
    \/ \E offset \in MoveInputs : Move(offset)
    \/ \E angles \in {Vec(1, 0, 0), Vec(-1, 0, 0), Vec(0, 0, 1)} : Rotate(angles)
    \/ ViewMatrix

SpecWorldPlane == Init /\ [][NextWorldPlane]_vars

\* values the caller stores in cam.target_distance
DistanceInputs == {Num(2)}

\* a camera at a distance from its target, rotated and moved in one frame
NextPipeline ==
    \/ \E d \in DistanceInputs : SetDistance(d)
    \/ \E offset \in MoveInputs : Move(offset)
    \/ \E angles \in {Vec(1, 0, 0), Vec(0, 1, 0)} : Rotate(angles)
    \/ ViewMatrix

SpecPipeline == Init /\ [][NextPipeline]_vars

\* (min, max) pairs with min > max
InvertedLimits == {<<One, Num(-1)>>, <<One, Zero>>}

\* a camera configured to clamp angles between inverted bounds
NextInverted ==
    \/ \E q \in PitchedInputs : SetOrientation(q)
    \/ \E m \in ClampModes, l \in InvertedLimits : Configure(m, l, l, l)
    \/ \E angles \in {Vec(1, 0, 0), Vec(-2, 0, 0), Vec(0, 1, 0)} : Rotate(angles)
    \/ ViewMatrix

SpecInverted == Init /\ [][NextInverted]_vars

\* a camera configured to clamp angles
NextClamp ==
    \/ \E q \in PitchedInputs : SetOrientation(q)
    \/ \E m \in ClampModes, l \in Limits : Configure(m, l, l, l)
    \/ \E angles \in {Vec(1, 0, 0), Vec(-2, 0, 0), Vec(0, 1, 0), Vec(0, 0, 1)} :
          Rotate(angles)
    \/ ViewMatrix

SpecClamp == Init /\ [][NextClamp]_vars


(***************************************************************************)
(* Properties                                                              *)
(***************************************************************************)
IdentityQuat == cm_init_quat(Zero, Zero, Zero, One)

IdentityMatrix ==
    << One, Zero, Zero, Zero,
       Zero, One, Zero, Zero,
       Zero, Zero, One, Zero,
       Zero, Zero, Zero, One >>

LessEq(x, y) == ~Less(y, x)

Accumulated == last.op \in {"camera_move", "camera_rotate"}

Resolved == last.op = "camera_view_matrix"

ClampFlags(mode) ==
    \/ HasFlag(mode, CAMERA_MODE_CLAMP_PITCH_ANGLE)
    \/ HasFlag(mode, CAMERA_MODE_CLAMP_YAW_ANGLE)
    \/ HasFlag(mode, CAMERA_MODE_CLAMP_ROLL_ANGLE)

C2_AccumulatorsCleared ==
    Resolved =>
        /\ cam.movement_accumulator = ZeroVec3
        /\ cam.rotation_accumulator = ZeroVec3
        /\ camera_view_matrix(cam).cam.target_position = cam.target_position
        /\ ~ClampFlags(cam.mode) =>
              camera_view_matrix(cam).cam.orientation = cam.orientation

\* a resolve of pending movement and rotation on a configured camera
C2_Witness ==
    /\ Resolved
    /\ pre.movement_accumulator # ZeroVec3
    /\ pre.rotation_accumulator # ZeroVec3
    /\ cam.mode # CAMERA_MODE_FREE
    /\ cam.target_position # pre.target_position
    /\ cam.orientation # pre.orientation

\* the camera as the last camera_view_matrix (or camera_init) left it, before
\* the calls of the current frame
FrameStart ==
    [cam EXCEPT !.movement_accumulator = ZeroVec3,
                !.rotation_accumulator = ZeroVec3]

Call(c, call) ==
    IF call.op = "camera_move" THEN camera_move(c, call.arg)
                               ELSE camera_rotate(c, call.arg)

RECURSIVE Replay(_, _)
Replay(c, callSeq) ==
    IF callSeq = <<>> THEN c
    ELSE Replay(Call(c, Head(callSeq)), Tail(callSeq))

Reordered(order) == [i \in 1..Len(queued) |-> queued[order[i]]]

\* C3: the camera_move and camera_rotate calls made since the last resolve
\* can be issued in any order: every permutation of them leaves the same
\* accumulators (the component-wise sums) and so the same camera, and
\* camera_view_matrix then gives the same orientation, target_position and
\* matrix.
C3_AccumulationCommutes ==
    LET resolved == camera_view_matrix(cam)
    IN  \A order \in Permutations(1..Len(queued)) :
            /\ Replay(FrameStart, Reordered(order)) = cam
            /\ camera_view_matrix(Replay(FrameStart, Reordered(order))) = resolved

\* three pending calls of both kinds, no two alike, on a turned camera
C3_Witness ==
    /\ Len(queued) = 3
    /\ \E i, j \in 1..3 : queued[i].op # queued[j].op
    /\ \A i, j \in 1..3 : i # j => queued[i] # queued[j]
    /\ cam.orientation # camera_init.orientation

\* C4: camera_init returns the identity orientation (0,0,0,1), a zero
\* target_position, target_distance, movement_accumulator and
\* rotation_accumulator, mode CAMERA_MODE_FREE and zero clamp bounds.
C4_InitIdentity ==
    last.op = "camera_init" =>
        /\ cam.orientation = IdentityQuat
        /\ cam.target_position = ZeroVec3
        /\ cam.target_distance = Zero
        /\ cam.movement_accumulator = ZeroVec3
        /\ cam.rotation_accumulator = ZeroVec3
        /\ cam.mode = CAMERA_MODE_FREE
        /\ cam.minPitch = Zero /\ cam.maxPitch = Zero
        /\ cam.minYaw = Zero /\ cam.maxYaw = Zero
        /\ cam.minRoll = Zero /\ cam.maxRoll = Zero

\* C5: after every camera_view_matrix call the orientation has norm 1,
\* whatever the orientation was before; an orientation of norm 0 becomes the
\* identity quaternion.
C5_UnitAfterResolve ==
    Resolved =>
        /\ QuatNorm(cam.orientation) = One
        /\ QuatNorm(pre.orientation) = Zero => cam.orientation = IdentityQuat

\* a resolve of a pending rotation on an orientation of norm 0
C5_Witness ==
    /\ Resolved
    /\ QuatNorm(pre.orientation) = Zero
    /\ pre.rotation_accumulator # ZeroVec3

\* C6: camera_init, then camera_rotate by (0,0,0), then camera_view_matrix
\* gives the identity orientation, target_position (0,0,0) and the identity
\* matrix; so does any resolve of the camera as camera_init returns it.
C6_InitRoundTrip ==
    Resolved /\ pre = camera_init =>
        /\ cam.orientation = IdentityQuat
        /\ cam.target_position = ZeroVec3
        /\ out_matrix = IdentityMatrix

\* the run camera_init, camera_rotate by (0,0,0), camera_view_matrix
C6_Witness ==
    /\ Resolved
    /\ pre = camera_init
    /\ calls = 1
    /\ frames = 1

\* clamp(v, lo, hi) for lo <= hi
Clamp(v, lo, hi) == IF Less(v, lo) THEN lo ELSE IF Less(hi, v) THEN hi ELSE v

\* the clamp rule on one axis: flag set and min <= max, or flag clear
AxisRule(flagged, min, max, current, requested, used) ==
    /\ flagged /\ LessEq(min, max) =>
          /\ used = Clamp(requested, Sub(min, current), Sub(max, current))
          /\ LessEq(min, Add(current, used))
          /\ LessEq(Add(current, used), max)
          /\ LessEq(Sub(min, current), requested)
               /\ LessEq(requested, Sub(max, current)) => used = requested
    /\ ~flagged => used = requested

\* C7: in camera_view_matrix, on each axis whose clamp flag is set (with
\* min <= max) the delta used for the orientation update is
\* clamp(delta, min - current, max - current), current being the Euler angle
\* of the orientation before the update, so current + delta is within
\* [min, max]; a delta already inside passes unchanged, and the delta of an
\* axis whose flag is clear is not altered.
C7_ClampRule ==
    Resolved =>
        LET current == cm_toEuler(pre.orientation)
            requested == pre.rotation_accumulator
            used == ClampAngles(pre)
        IN  /\ AxisRule(HasFlag(pre.mode, CAMERA_MODE_CLAMP_PITCH_ANGLE),
                        pre.minPitch, pre.maxPitch, current.x, requested.x, used.x)
            /\ AxisRule(HasFlag(pre.mode, CAMERA_MODE_CLAMP_YAW_ANGLE),
                        pre.minYaw, pre.maxYaw, current.y, requested.y, used.y)
            /\ AxisRule(HasFlag(pre.mode, CAMERA_MODE_CLAMP_ROLL_ANGLE),
                        pre.minRoll, pre.maxRoll, current.z, requested.z, used.z)
            /\ cam.orientation =
                  cm_normalizeQuat(ComposeOrientation(pre.orientation, pre.mode, used))

\* a resolve that truncates the pitch delta of a camera whose pitch is not 0,
\* and passes the yaw delta of the unclamped yaw axis
C7_Witness ==
    /\ Resolved
    /\ HasFlag(pre.mode, CAMERA_MODE_CLAMP_PITCH_ANGLE)
    /\ ~HasFlag(pre.mode, CAMERA_MODE_CLAMP_YAW_ANGLE)
    /\ cm_toEuler(pre.orientation).x # Zero
    /\ ClampAngles(pre).x # pre.rotation_accumulator.x
    /\ pre.rotation_accumulator.y # Zero

\* C8: with CAMERA_MODE_CLAMP_PITCH_ANGLE set and minPitch <= maxPitch, the
\* pitch decoded from the orientation after every camera_view_matrix call is
\* within [minPitch, maxPitch], here for every call that starts from a unit
\* orientation with pitch the only clamped axis and ends away from the
\* singularity of the Euler decoding (a roll of a quarter turn).
C8_PitchWithinBounds ==
    Resolved /\ HasFlag(cam.mode, CAMERA_MODE_CLAMP_PITCH_ANGLE)
             /\ LessEq(cam.minPitch, cam.maxPitch)
             /\ ~HasFlag(cam.mode, CAMERA_MODE_CLAMP_YAW_ANGLE)
             /\ ~HasFlag(cam.mode, CAMERA_MODE_CLAMP_ROLL_ANGLE)
             /\ QuatNorm(pre.orientation) = One
             /\ cm_toEuler(cam.orientation).z \notin {One, Neg(One)} =>
        /\ LessEq(cam.minPitch, cm_toEuler(cam.orientation).x)
        /\ LessEq(cm_toEuler(cam.orientation).x, cam.maxPitch)

PitchDeltas == {Vec(1, 0, 0), Vec(-1, 0, 0), Vec(2, 0, 0)}

\* C9: with CAMERA_MODE_DISABLE_ROLL set and no clamp flag, from any
\* orientation, a camera_view_matrix call resolving a pure-yaw delta followed
\* by a second one resolving a pure-pitch delta phi gives the same orientation
\* as one camera_view_matrix call resolving both deltas together.
C9_NoRollOrder ==
    Resolved /\ HasFlag(pre.mode, CAMERA_MODE_DISABLE_ROLL)
             /\ ~ClampFlags(pre.mode)
             /\ pre.rotation_accumulator.x = Zero
             /\ pre.rotation_accumulator.y # Zero
             /\ pre.rotation_accumulator.z = Zero =>
        \A phi \in PitchDeltas :
            camera_view_matrix(camera_rotate(cam, phi)).cam.orientation
                = camera_view_matrix(camera_rotate(pre, phi)).cam.orientation

\* C10: camera_look_at overwrites orientation at once and leaves every other
\* member as it was: target_position, target_distance, mode, the clamp bounds
\* and both accumulators; the next camera_view_matrix applies the deltas
\* queued before the call on top of the new orientation.
C10_LookAtImmediate ==
    last.op = "camera_look_at" =>
        /\ cam = [pre EXCEPT !.orientation = LookAtQuat(last.arg[1], last.arg[2])]
        /\ LET next == camera_view_matrix(cam).cam
               turned == [pre EXCEPT !.orientation = cam.orientation]
           IN  /\ next.orientation =
                     cm_normalizeQuat(ComposeOrientation(
                         cam.orientation, pre.mode, ClampAngles(turned)))
               /\ next.target_position =
                     ApplyMovement(pre, MoveBasis(next)).target_position

\* a camera_look_at call that turns a camera with movement and rotation
\* pending, after an earlier frame
C10_Witness ==
    /\ last.op = "camera_look_at"
    /\ frames >= 1
    /\ pre.movement_accumulator # ZeroVec3
    /\ pre.rotation_accumulator # ZeroVec3
    /\ cam.orientation # pre.orientation
    /\ camera_view_matrix(cam).cam.orientation # cam.orientation

\* the branch of the matrix-to-quaternion conversion camera_look_at takes:
\* 1 for trace > 0, then 2, 3, 4 for the largest diagonal element m0, m5, m10
LookAtBranch(forward, up) ==
    LET right == cm_normalizeVec3(cm_cross(up, forward))
        newUp == cm_cross(forward, right)
    IN  IF Less(Zero, Add(Add(right.x, newUp.y), forward.z)) THEN 1
        ELSE IF Less(newUp.y, right.x) /\ Less(forward.z, right.x) THEN 2
        ELSE IF Less(forward.z, newUp.y) THEN 3
        ELSE 4

\* C11: for unit, orthogonal forward f and up u, after camera_look_at the
\* orientation is a unit quaternion with camera_forward = f, camera_up = u
\* and camera_right = cross(u, f), in each of the four branches of the
\* conversion; looking along (0,0,1) with up (0,1,0) gives (0,0,0,1).
C11_LookAtEquivalence ==
    last.op = "camera_look_at" =>
        /\ QuatNorm(cam.orientation) = One
        /\ camera_forward(cam) = last.arg[1]
        /\ camera_up(cam) = last.arg[2]
        /\ camera_right(cam) = cm_cross(last.arg[2], last.arg[1])
        /\ last.arg = <<CAMERA_WORLD_FORWARD, CAMERA_WORLD_UP>> =>
              cam.orientation = IdentityQuat

\* a camera_look_at call taking the last branch (trace <= 0, m10 the largest
\* diagonal element) on a camera an earlier call had turned elsewhere
C11_Witness ==
    /\ last.op = "camera_look_at"
    /\ LookAtBranch(last.arg[1], last.arg[2]) = 4
    /\ QuatNorm(pre.orientation) = One
    /\ pre.orientation # cam.orientation
    /\ cam.orientation.w # Zero

\* the change of target_position made by the last call
Displacement ==
    cm_add(cam.target_position, cm_negate(pre.target_position))

\* C12: with CAMERA_MODE_MOVE_IN_WORLDPLANE set, whatever the orientation, a
\* camera_view_matrix call changes target_position.y by exactly
\* movement_accumulator.y; the forward and right components move
\* target_position in X/Z only, by a horizontal vector as long as the two
\* components taken together, so a pure-forward move never changes Y and
\* always changes X or Z, looking straight down included.
C12_WorldPlaneMovement ==
    Resolved /\ HasFlag(pre.mode, CAMERA_MODE_MOVE_IN_WORLDPLANE) =>
        /\ Displacement.y = pre.movement_accumulator.y
        /\ Add(Mul(Displacement.x, Displacement.x), Mul(Displacement.z, Displacement.z))
              = Add(Mul(pre.movement_accumulator.x, pre.movement_accumulator.x),
                    Mul(pre.movement_accumulator.z, pre.movement_accumulator.z))
        /\ pre.movement_accumulator.x # Zero
             /\ pre.movement_accumulator.y = Zero
             /\ pre.movement_accumulator.z = Zero =>
                /\ Displacement.y = Zero
                /\ Displacement.x # Zero \/ Displacement.z # Zero

\* a resolve of a pure-forward move that leaves the camera looking straight
\* down
C12_Witness ==
    /\ Resolved
    /\ HasFlag(pre.mode, CAMERA_MODE_MOVE_IN_WORLDPLANE)
    /\ camera_forward(cam) = Vec(0, -1, 0)
    /\ pre.movement_accumulator = Vec(1, 0, 0)
    /\ Displacement # ZeroVec3

\* movement (forward, up, right) applied along the basis of camera c
Along(c, movement) ==
    cm_add(cm_add(cm_scale(camera_forward(c), movement.x),
                  cm_scale(camera_up(c), movement.y)),
           cm_scale(camera_right(c), movement.z))

\* C13: within one camera_view_matrix call the queued rotation is applied
\* before the queued movement: with no mode flag set, target_position moves
\* along camera_forward, camera_up and camera_right of the orientation the
\* call leaves, and the translation written to the matrix is that of the eye
\* computed from the orientation and target_position the call leaves.
C13_PipelineOrdering ==
    Resolved /\ pre.mode = CAMERA_MODE_FREE =>
        /\ Displacement = Along(cam, pre.movement_accumulator)
        /\ <<out_matrix[13], out_matrix[14], out_matrix[15]>> =
              LET translation == cm_mul(cm_negate(camera_eye(cam)), cam.orientation)
              IN  <<translation.x, translation.y, translation.z>>

\* a resolve of a rotation and a movement queued in the same frame, on a
\* camera at a distance from its target, where the basis before the rotation
\* would have moved the target elsewhere
C13_Witness ==
    /\ Resolved
    /\ QuatNorm(pre.orientation) = One
    /\ pre.rotation_accumulator # ZeroVec3
    /\ pre.movement_accumulator # ZeroVec3
    /\ cam.target_distance # Zero
    /\ Displacement # Along(pre, pre.movement_accumulator)
    /\ camera_eye(cam) # cam.target_position

\* the delta camera_view_matrix applies on one axis whose bounds are inverted
SnapRule(flagged, min, max, current, requested, used) ==
    /\ flagged /\ Less(max, min) => used = Sub(max, current)
    /\ ~flagged => used = requested

NoRollProduct(orientation, pitch, yaw) ==
    cm_normalizeQuat(cm_mulQuat(yaw, cm_mulQuat(orientation, pitch)))

\* normalize(((orientation * pitch) * yaw) * roll)
RollProduct(orientation, pitch, yaw, roll) ==
    cm_normalizeQuat(cm_mulQuat(cm_mulQuat(cm_mulQuat(orientation, pitch), yaw), roll))

\* C15: camera_view_matrix with CAMERA_MODE_DISABLE_ROLL set leaves
\* normalize(yaw * (orientation * pitch)); the queued roll changes nothing in
\* the orientation and is cleared with the accumulator, so a later resolve
\* with roll enabled does not apply it.  With the flag clear it leaves
\* normalize(((orientation * pitch) * yaw) * roll).  Pitch, yaw and roll are
\* the rotations about the world right, up and forward axes by the deltas
\* left by the clamp section.
C15_ModeComposition ==
    Resolved =>
        \A used \in {ClampAngles(pre)} :
        \A pitch \in {cm_fromAxisAngle(CAMERA_WORLD_RIGHT, used.x)} :
        \A yaw \in {cm_fromAxisAngle(CAMERA_WORLD_UP, used.y)} :
        \A roll \in {cm_fromAxisAngle(CAMERA_WORLD_FORWARD, used.z)} :
        \A withoutRoll \in {[pre EXCEPT !.rotation_accumulator.z = Zero]} :
        \A rollEnabled \in {[cam EXCEPT !.mode = CAMERA_MODE_FREE]} :
            IF HasFlag(pre.mode, CAMERA_MODE_DISABLE_ROLL)
            THEN /\ cam.orientation = NoRollProduct(pre.orientation, pitch, yaw)
                 /\ cam.orientation = camera_view_matrix(withoutRoll).cam.orientation
                 /\ cam.rotation_accumulator = ZeroVec3
                 /\ camera_view_matrix(rollEnabled).cam.orientation = cam.orientation
            ELSE cam.orientation = RollProduct(pre.orientation, pitch, yaw, roll)

\* a resolve with CAMERA_MODE_DISABLE_ROLL of pitch, yaw and roll queued
\* together on a unit orientation
C15_Witness ==
    /\ Resolved
    /\ HasFlag(pre.mode, CAMERA_MODE_DISABLE_ROLL)
    /\ QuatNorm(pre.orientation) = One
    /\ pre.rotation_accumulator.x # Zero
    /\ pre.rotation_accumulator.y # Zero
    /\ pre.rotation_accumulator.z # Zero
    /\ cam.orientation # pre.orientation

====
